---- MODULE Spec2Model ----
(***************************************************************************)
(* A model of image-gui4-multi3.py: the per-file worker                    *)
(* process_single_file, the batch orchestration of App.start_processing /  *)
(* process_results / run_multiprocessing / run_single_process, and the     *)
(* status queue polled by App.check_queue.                                 *)
(*                                                                         *)
(* Strings are sequences of atoms.  An atom is one character, except that  *)
(* a fixed phrase of the program's messages is a single atom (DoneMark,    *)
(* FatalMark, ErrorMark and the other message prefixes).                   *)
(***************************************************************************)
EXTENDS Integers, Sequences, FiniteSets, TLC

----------------------------------------------------------------------------
(* Bounds of the model *)

\* clicks on the start button in one behaviour
MaxRuns == 2
\* upper end of the worker-count slider (os.cpu_count())
MaxCpus == 2
\* environment faults (I/O errors, pool launch failure) injected per behaviour
MaxFaults == 1
\* largest image width and height of the thumbnail-size check
MaxDim == 200

----------------------------------------------------------------------------
(* Strings *)

Placeholder == <<"{", "F", "i", "l", "e", "n", "a", "m", "e", "}">>

\* the phrase of the summary that check_queue searches for
DoneMark == "ALL_FILES_PROCESSED"
\* the prefix "!!!" of the multiprocessing error message
FatalMark == "!!!"
\* the prefix of the invalid-configuration message
ErrorMark == "ERROR:"

\* str.lower() on one atom
LowerChar(c) ==
    CASE c = "J" -> "j"
      [] c = "P" -> "p"
      [] c = "E" -> "e"
      [] c = "G" -> "g"
      [] OTHER -> c

\* str.lower()
Lower(s) == [i \in 1..Len(s) |-> LowerChar(s[i])]

\* str.endswith(suffix)
EndsWith(s, suffix) ==
    /\ Len(suffix) <= Len(s)
    /\ SubSeq(s, Len(s) - Len(suffix) + 1, Len(s)) = suffix

\* str.startswith(prefix)
StartsWith(s, prefix) ==
    /\ Len(prefix) <= Len(s)
    /\ SubSeq(s, 1, Len(prefix)) = prefix

\* `sub in s`
Contains(s, sub) ==
    \E i \in 1..(Len(s) - Len(sub) + 1) : SubSeq(s, i, i + Len(sub) - 1) = sub

\* str.replace(old, new): every non-overlapping occurrence, left to right
RECURSIVE Replace(_, _, _)
Replace(s, old, new) ==
    IF Len(s) = 0 THEN <<>>
    ELSE IF StartsWith(s, old)
         THEN new \o Replace(SubSeq(s, Len(old) + 1, Len(s)), old, new)
         ELSE <<s[1]>> \o Replace(Tail(s), old, new)

\* filename.lower().endswith(('.jpg', '.jpeg'))
IsJpegName(filename) ==
    \/ EndsWith(Lower(filename), <<".", "j", "p", "g">>)
    \/ EndsWith(Lower(filename), <<".", "j", "p", "e", "g">>)

\* os.path.splitext: the extension starts at the last dot, unless only dots
\* precede it
SplitAt(s) ==
    LET dots == {i \in 1..Len(s) :
                    /\ s[i] = "."
                    /\ \E j \in 1..(i - 1) : s[j] # "."}
    IN  IF dots = {} THEN Len(s) + 1
        ELSE CHOOSE i \in dots : \A j \in dots : j <= i

SplitExt(s) == <<SubSeq(s, 1, SplitAt(s) - 1), SubSeq(s, SplitAt(s), Len(s))>>

DigitChar(d) ==
    CASE d = 0 -> "0" [] d = 1 -> "1" [] d = 2 -> "2" [] d = 3 -> "3"
      [] d = 4 -> "4" [] d = 5 -> "5" [] d = 6 -> "6" [] d = 7 -> "7"
      [] d = 8 -> "8" [] d = 9 -> "9"

\* str(counter) of the f-string of the rename loop
RECURSIVE Decimal(_)
Decimal(n) ==
    IF n < 10 THEN <<DigitChar(n)>>
    ELSE Decimal(n \div 10) \o <<DigitChar(n % 10)>>

----------------------------------------------------------------------------
(* Thumbnail size *)

target_width == 160
target_height == 120

\* int(original * ratio) with ratio = min(target_width / original_width,
\* target_height / original_height).  The quotient and the product are
\* floating-point: where the exact product is an integer k the rounded
\* product is k or lies just below or above it, so int() yields k or k - 1;
\* elsewhere the fractional part is at least 1/original and int() is the
\* exact floor.  num/den is the exact ratio.
ScaledDims(n, num, den) ==
    IF (n * num) % den = 0
    THEN {(n * num) \div den, ((n * num) \div den) - 1} \ {-1}
    ELSE {(n * num) \div den}


\* NewSizes with max in place of min
NewSizes_Max(original_width, original_height) ==
    IF target_width * original_height > target_height * original_width
    THEN ScaledDims(original_width, target_width, original_width)
            \X ScaledDims(original_height, target_width, original_width)
    ELSE ScaledDims(original_width, target_height, original_height)
            \X ScaledDims(original_height, target_height, original_height)

\* lines 41-43: the set of (new_width, new_height) the build can produce
NewSizes(original_width, original_height) ==
    IF target_width * original_height <= target_height * original_width
    THEN \* ratio = target_width / original_width
         ScaledDims(original_width, target_width, original_width)
            \X ScaledDims(original_height, target_width, original_width)
    ELSE \* ratio = target_height / original_height
         ScaledDims(original_width, target_height, original_height)
            \X ScaledDims(original_height, target_height, original_height)

----------------------------------------------------------------------------
(* Files *)

\* A file's bytes, by what the program can observe of them:
\*   pix   the pixel data (the non-EXIF portion); "bad" is not an image,
\*         "none" is a file of no bytes
\*   exif  whether piexif.load parses the file
\*   thumb whether the EXIF holds a thumbnail
\*   size  <<width, height>> of the decoded image
FileBytes(pix, exif, thumb, size) ==
    [pix |-> pix, exif |-> exif, thumb |-> thumb, size |-> size]

\* a file just opened with 'wb': truncated, nothing written yet
EmptyBytes == FileBytes("none", "bad", FALSE, <<0, 0>>)

Path(root, rel, name) == [root |-> root, rel |-> rel, name |-> name]

\* piexif.load(bytes).get("thumbnail") is None; "raise" when the parse fails
ThumbnailIsNone(bytes) ==
    IF bytes.exif = "bad" THEN "raise"
    ELSE IF bytes.thumb THEN "no" ELSE "yes"

\* cv2.imdecode: an image, None for bytes that are no image, an exception
\* for an empty buffer
Decode(bytes) ==
    CASE bytes.pix = "none" -> "raise"
      [] bytes.pix = "bad" -> "None"
      [] OTHER -> "img"

\* cv2.resize raises on a destination size with a zero dimension
ResizeRaises(size) ==
    \E d \in NewSizes(size[1], size[2]) : d[1] = 0 \/ d[2] = 0


\* Insert on the re-encoded image instead of the original bytes
Insert_Reencoded(original_bytes) ==
    FileBytes("reencoded", "ok", TRUE, original_bytes.size)

\* piexif.insert(exif_bytes, original_bytes): the EXIF segment of the original
\* bytes is replaced, everything else is copied
Insert(original_bytes) ==
    FileBytes(original_bytes.pix, "ok", TRUE, original_bytes.size)


\* OutputPath without the original extension
OutputPath_NoExt(task) ==
    Path(task.output_root_folder, task.full_path.rel,
         Replace(task.filename_format, Placeholder,
                 SplitExt(task.full_path.name)[1]))

\* lines 62-70: the destination path of a task
OutputPath(task) ==
    LET filename == task.full_path.name
        name == SplitExt(filename)[1]
        ext == SplitExt(filename)[2]
        new_filename_base == Replace(task.filename_format, Placeholder, name)
        new_filename == new_filename_base \o ext
    IN  Path(task.output_root_folder, task.full_path.rel, new_filename)

FailureDecode(filename) == <<"FAILURE", <<"FAILED (cannot decode): ">> \o filename>>
FailureEncode(filename) == <<"FAILURE", <<"FAILED (thumbnail encode): ">> \o filename>>

\* FailureException without the except clause: the exception leaves
\* process_single_file
FailureException_Raised(filename) == <<"EXCEPTION", <<"e">>>>

FailureException(filename) == <<"FAILURE", <<"FAILED: ">> \o filename \o <<" (e)">>>>
SkippedExists(new_filename) == <<"SKIPPED_EXISTS", <<"SKIPPED (exists): ">> \o new_filename>>
Success(filename, out_name) == <<"SUCCESS", <<"PROCESSED: ">> \o filename \o <<" -> ">> \o out_name>>

\* lines 28-70 on the bytes that were read; fault is the environment's part:
\* "none", "encode" (imencode reports failure) or "raise" (any step raises).
\* The result is a Result pair, or the bytes and path to write.
Transform(task, original_bytes, fault) ==
    LET filename == task.full_path.name
    IN  IF fault = "raise" THEN [result |-> FailureException(filename)]
        ELSE IF Decode(original_bytes) = "raise"
             THEN [result |-> FailureException(filename)]
        ELSE IF Decode(original_bytes) = "None"
             THEN [result |-> FailureDecode(filename)]
        ELSE IF ResizeRaises(original_bytes.size)
             THEN [result |-> FailureException(filename)]
        ELSE IF fault = "encode" THEN [result |-> FailureEncode(filename)]
        ELSE [result |-> <<"CONTINUE", <<>>>>,
              original_bytes |-> original_bytes,
              output_bytes |-> Insert(original_bytes),
              output_path |-> OutputPath(task)]

\* line 79: f"{name_part} ({counter}){ext_part}"
Renamed(output_path, counter) ==
    Path(output_path.root, output_path.rel,
         SplitExt(output_path.name)[1] \o <<" ", "(">> \o Decimal(counter)
            \o <<")">> \o SplitExt(output_path.name)[2])


\* ResolveConflict without the "skip" branch
ResolveConflict_NoSkip(files, output_path, conflict_resolution) ==
    IF output_path \in files /\ conflict_resolution = "rename"
    THEN [skip |-> FALSE, path |-> Renamed(output_path, 2)]
    ELSE [skip |-> FALSE, path |-> output_path]

\* lines 72-83: whether to return SKIPPED_EXISTS, and the path to open
ResolveConflict(files, output_path, conflict_resolution) ==
    IF output_path \in files /\ conflict_resolution = "skip"
    THEN [skip |-> TRUE, path |-> output_path]
    ELSE IF output_path \in files /\ conflict_resolution = "rename"
    THEN LET free == {c \in 2..(Cardinality(files) + 2) :
                        Renamed(output_path, c) \notin files}
             counter == CHOOSE c \in free : \A d \in free : c <= d
         IN  [skip |-> FALSE, path |-> Renamed(output_path, counter)]
    ELSE [skip |-> FALSE, path |-> output_path]

\* f[p] := bytes, creating p when it does not exist
WriteFile(f, p, bytes) ==
    [q \in DOMAIN f \cup {p} |-> IF q = p THEN bytes ELSE f[q]]

\* process_single_file run without interruption and without faults:
\* the file system after it and its Result
ProcessAlone(f, task) ==
    LET filename == task.full_path.name
        t == Transform(task, f[task.full_path], "none")
    IN  IF t.result[1] # "CONTINUE" THEN [fs |-> f, result |-> t.result]
        ELSE LET dest == ResolveConflict(DOMAIN f, t.output_path,
                                         task.conflict_resolution)
             IN  IF dest.skip
                 THEN [fs |-> f, result |-> SkippedExists(t.output_path.name)]
                 ELSE [fs |-> WriteFile(f, dest.path, t.output_bytes),
                       result |-> Success(filename, dest.path.name)]

----------------------------------------------------------------------------
(* State *)

VARIABLES
    cfg,            \* the form: input/output folder labels, filename format,
                    \* conflict policy, multiprocessing switch, slider, log switch
    fs,             \* the file system: path -> bytes, for the existing files
    fs0,            \* the file system before the first run
    user,           \* "patient": clicks only when no run is active; "hasty"
    start_button,   \* state of self.start_button
    status_queue,   \* self.status_queue
    status_text,    \* the lines of self.status_text
    runs,           \* the start_processing threads, in order of creation
    nfaults,        \* environment faults injected so far
    img,            \* <<original_width, original_height>> of a decoded image
    thumb_size      \* <<new_width, new_height>>, <<>> before the computation

vars == <<cfg, fs, fs0, user, start_button, status_queue, status_text, runs,
          nfaults, img, thumb_size>>

gui_vars == <<start_button, status_queue, status_text>>
thumb_vars == <<img, thumb_size>>

\* os.path.isdir of a folder label
IsDir(folder) == folder \in {"in", "out"}

\* the messages of start_processing, process_results and run_multiprocessing
ConfigErrorMessage == <<ErrorMark, "invalid input or output folder">>
ScanMessage == <<"SCAN_DONE">>
SummaryMessage == <<"\n--- ", DoneMark, " ---", "summary">>
FatalMessage == <<FatalMark, " multiprocessing error: e ", FatalMark>>


\* IsTerminal without the test for the fatal-error prefix
IsTerminal_NoFatal(message) ==
    \/ Contains(message, <<DoneMark>>)
    \/ StartsWith(message, <<ErrorMark>>)

\* line 278: the messages that put the start button back
IsTerminal(message) ==
    \/ Contains(message, <<DoneMark>>)
    \/ StartsWith(message, <<FatalMark>>)
    \/ StartsWith(message, <<ErrorMark>>)

\* a thread just created by start_processing_thread
NewRun ==
    [pc |-> "start", tasks |-> <<>>, skipped_thumb_count |-> 0, seen |-> 0,
     next |-> 1, work |-> <<>>, results |-> <<>>,
     processed_count |-> 0, skipped_exists_count |-> 0, failed_count |-> 0,
     n_summary |-> 0, n_fatal |-> 0]

\* lines 210, 216: the task tuple
Task(full_path) ==
    [full_path |-> full_path,
     output_root_folder |-> cfg.output_path,
     filename_format |-> cfg.filename_format,
     conflict_resolution |-> cfg.conflict_resolution,
     root_folder |-> cfg.input_path,
     show_log |-> cfg.show_log]

\* lines 202-204: the files the walk of the input folder keeps
ScannedFiles(f, input_path) ==
    {p \in DOMAIN f : p.root = input_path /\ IsJpegName(p.name)}


\* NeedsTask with an except clause that drops the file
NeedsTask_ParsedOnly(f, p) == ThumbnailIsNone(f[p]) = "yes"

\* lines 206-216: the files that get a task
NeedsTask(f, p) == ThumbnailIsNone(f[p]) \in {"yes", "raise"}

\* the orders in which os.walk may list the files of set S
Orders(S) ==
    {q \in [1..Cardinality(S) -> S] : \A p \in S : \E i \in DOMAIN q : q[i] = p}

\* lines 236-241: the counters after one Result
Count(run, status) ==
    [run EXCEPT
        !.processed_count = @ + (IF status = "SUCCESS" THEN 1 ELSE 0),
        !.skipped_exists_count = @ + (IF status = "SKIPPED_EXISTS" THEN 1 ELSE 0),
        !.failed_count = @ + (IF status = "FAILURE" THEN 1 ELSE 0)]

\* line 243: the messages a Result adds to the status queue
Logged(show_log, result) ==
    IF show_log \/ result[1] = "FAILURE" THEN <<result[2]>> ELSE <<>>

\* tasks that may be in process_single_file at once
MaxInFlight == IF cfg.use_mp THEN cfg.num_processes ELSE 1

Active(r) == runs[r].pc # "done"

CanFault == nfaults < MaxFaults

----------------------------------------------------------------------------
(* The user and the poll loop *)

\* the start button is pressed: start_processing_thread
Click ==
    /\ start_button = "normal"
    /\ Len(runs) < MaxRuns
    /\ user = "patient" => \A r \in DOMAIN runs : ~Active(r)
    /\ runs' = Append(runs, NewRun)
    /\ UNCHANGED <<cfg, fs, fs0, user, gui_vars, nfaults, thumb_vars>>

\* check_queue with a message in the queue (with none it changes nothing)
CheckQueue ==
    /\ status_queue # <<>>
    /\ status_queue' = Tail(status_queue)
    /\ status_text' = Append(status_text, Head(status_queue))
    /\ start_button' = IF IsTerminal(Head(status_queue)) THEN "normal"
                       ELSE start_button
    /\ UNCHANGED <<cfg, fs, fs0, user, runs, nfaults, thumb_vars>>

----------------------------------------------------------------------------
(* start_processing *)

\* lines 184-192
Validate(r) ==
    /\ runs[r].pc = "start"
    /\ IF IsDir(cfg.input_path) /\ IsDir(cfg.output_path)
       THEN /\ runs' = [runs EXCEPT ![r].pc = "validated"]
            /\ UNCHANGED status_queue
       ELSE /\ runs' = [runs EXCEPT ![r].pc = "done"]
            /\ status_queue' = Append(status_queue, ConfigErrorMessage)
    /\ UNCHANGED <<cfg, fs, fs0, user, start_button, status_text, nfaults,
                   thumb_vars>>

\* lines 194-220
Scan(r) ==
    /\ runs[r].pc = "validated"
    /\ start_button' = "disabled"
    /\ status_text' = <<>>
    /\ LET files == ScannedFiles(fs, cfg.input_path)
           todo == {p \in files : NeedsTask(fs, p)}
       IN  \E order \in Orders(todo) :
               runs' = [runs EXCEPT
                   ![r].pc = "scanned",
                   ![r].tasks = [i \in DOMAIN order |-> Task(order[i])],
                   ![r].skipped_thumb_count =
                        Cardinality({p \in files : ThumbnailIsNone(fs[p]) = "no"}),
                   ![r].seen = Cardinality(files)]
    /\ status_queue' = Append(status_queue, ScanMessage)
    /\ UNCHANGED <<cfg, fs, fs0, user, nfaults, thumb_vars>>

\* lines 226-229 and 259-260: the pool starts, or the sequential pass
Dispatch(r) ==
    /\ runs[r].pc = "scanned"
    /\ runs' = [runs EXCEPT ![r].pc = "running"]
    /\ UNCHANGED <<cfg, fs, fs0, user, gui_vars, nfaults, thumb_vars>>

\* lines 260, 263-264: multiprocessing.Pool raises
PoolFails(r) ==
    /\ runs[r].pc = "scanned"
    /\ cfg.use_mp
    /\ CanFault
    /\ nfaults' = nfaults + 1
    /\ runs' = [runs EXCEPT ![r].pc = "done", ![r].n_fatal = @ + 1]
    /\ status_queue' = Append(status_queue, FatalMessage)
    /\ UNCHANGED <<cfg, fs, fs0, user, start_button, status_text, thumb_vars>>

----------------------------------------------------------------------------
(* process_single_file, run by a pool worker or by the sequential pass *)

\* the worker's Result reaches the iterator of process_results
Return(run, i, result) ==
    [run EXCEPT
        !.work = [j \in DOMAIN run.work \ {i} |-> run.work[j]],
        !.results = Append(@, result)]

\* a worker is inside process_single_file with task i, about to open or to
\* write output_path
Working(run, i, pc, t, dest) ==
    [run EXCEPT
        !.work = [j \in DOMAIN run.work \cup {i} |->
                    IF j = i
                    THEN [pc |-> pc, original_bytes |-> t.original_bytes,
                          output_bytes |-> t.output_bytes, output_path |-> dest]
                    ELSE run.work[j]]]

\* a task may start: a pool worker is free, or the sequential pass has
\* handled the previous Result
MayStart(run) ==
    /\ run.pc = "running"
    /\ run.next <= Len(run.tasks)
    /\ Cardinality(DOMAIN run.work) < MaxInFlight
    /\ ~cfg.use_mp => run.results = <<>>

\* lines 24-83: the next task is read and transformed and the destination is
\* checked.  (The singleton sets bind the values of the task, of the
\* transform and of the conflict resolution, each computed once.)
Prepare(r, fault) ==
    /\ MayStart(runs[r])
    /\ fault # "none" => CanFault
    /\ nfaults' = IF fault # "none" THEN nfaults + 1 ELSE nfaults
    /\ \E i \in {runs[r].next} :
       \E task \in {runs[r].tasks[i]} :
       \E t \in {Transform(task, fs[task.full_path], fault)} :
       \E dest \in {IF t.result[1] = "CONTINUE"
                    THEN ResolveConflict(DOMAIN fs, t.output_path,
                                         task.conflict_resolution)
                    ELSE [skip |-> FALSE, path |-> task.full_path]} :
       \E started \in {[runs[r] EXCEPT !.next = i + 1]} :
            runs' = [runs EXCEPT ![r] =
                IF t.result[1] # "CONTINUE" THEN Return(started, i, t.result)
                ELSE IF dest.skip
                     THEN Return(started, i, SkippedExists(t.output_path.name))
                     ELSE Working(started, i, "open", t, dest.path)]
    /\ UNCHANGED <<cfg, fs, fs0, user, gui_vars, thumb_vars>>

\* line 85: open(output_path, 'wb') creates or truncates the file
Open(r, i) ==
    /\ i \in DOMAIN runs[r].work
    /\ runs[r].work[i].pc = "open"
    /\ fs' = WriteFile(fs, runs[r].work[i].output_path, EmptyBytes)
    /\ runs' = [runs EXCEPT ![r].work[i].pc = "write"]
    /\ UNCHANGED <<cfg, fs0, user, gui_vars, nfaults, thumb_vars>>

\* lines 86-88: the bytes are written and SUCCESS is returned
Write(r, i) ==
    /\ i \in DOMAIN runs[r].work
    /\ runs[r].work[i].pc = "write"
    /\ fs' = WriteFile(fs, runs[r].work[i].output_path,
                       runs[r].work[i].output_bytes)
    /\ runs' = [runs EXCEPT ![r] =
            Return(@, i, Success(@.tasks[i].full_path.name,
                                 @.work[i].output_path.name))]
    /\ UNCHANGED <<cfg, fs0, user, gui_vars, nfaults, thumb_vars>>

\* lines 85-86, 90-91: open or write raises (OSError); the file keeps what
\* it held when the call failed
WriteFails(r, i) ==
    /\ i \in DOMAIN runs[r].work
    /\ CanFault
    /\ nfaults' = nfaults + 1
    /\ runs' = [runs EXCEPT ![r] =
            Return(@, i, FailureException(@.tasks[i].full_path.name))]
    /\ UNCHANGED <<cfg, fs, fs0, user, gui_vars, thumb_vars>>

----------------------------------------------------------------------------
(* process_results *)

\* lines 235-244: one Result is taken from the iterator
Collect(r) ==
    /\ runs[r].pc = "running"
    /\ runs[r].results # <<>>
    /\ LET result == Head(runs[r].results)
       IN  /\ runs' = [runs EXCEPT ![r] =
                    [Count(@, result[1]) EXCEPT !.results = Tail(@)]]
           /\ status_queue' = status_queue \o Logged(cfg.show_log, result)
    /\ UNCHANGED <<cfg, fs, fs0, user, start_button, status_text, nfaults,
                   thumb_vars>>

\* lines 246-256: the iterator is exhausted
Summary(r) ==
    /\ runs[r].pc = "running"
    /\ runs[r].next > Len(runs[r].tasks)
    /\ DOMAIN runs[r].work = {}
    /\ runs[r].results = <<>>
    /\ runs' = [runs EXCEPT ![r].pc = "done", ![r].n_summary = @ + 1]
    /\ status_queue' = Append(status_queue, SummaryMessage)
    /\ UNCHANGED <<cfg, fs, fs0, user, start_button, status_text, nfaults,
                   thumb_vars>>

----------------------------------------------------------------------------
(* The thumbnail size on its own *)

\* lines 41-43
Resize ==
    /\ thumb_size = <<>>
    /\ thumb_size' \in NewSizes(img[1], img[2])
    /\ UNCHANGED <<cfg, fs, fs0, user, gui_vars, runs, nfaults, img>>

----------------------------------------------------------------------------
(* Initial states *)

Jpg(stem) == <<stem, ".", "j", "p", "g">>
Thumb == <<"-", "t", "h", "u", "m", "b">>

\* the default of the format entry, "{Filename}-thumb"
DefaultFormat == Placeholder \o Thumb
\* "{name}-thumb": braces, but not the program's placeholder
NameFormat == <<"{", "n", "a", "m", "e", "}">> \o Thumb
\* "E": no placeholder at all; every file of a folder gets the stem "E"
PlainFormat == <<"E">>
\* "{Filename}": the output keeps the input's name
SameFormat == Placeholder

Formats == {DefaultFormat, NameFormat, PlainFormat, SameFormat}
Policies == {"skip", "overwrite", "rename"}

\* A.jpg already holds a thumbnail, B.jpg and E.jpg are images without one,
\* C.jpg is no image, E.JPG is an image with an upper-case extension,
\* S.jpeg is 1000x1 pixels, N.png is not a JPEG name, and the last file is an
\* image whose name holds the phrase of the summary
FileA == [rel |-> ".", name |-> Jpg("A"),
          bytes |-> FileBytes("pixA", "ok", TRUE, <<320, 240>>)]
FileB == [rel |-> ".", name |-> Jpg("B"),
          bytes |-> FileBytes("pixB", "ok", FALSE, <<320, 240>>)]
FileC == [rel |-> ".", name |-> Jpg("C"),
          bytes |-> FileBytes("bad", "bad", FALSE, <<0, 0>>)]
FileE == [rel |-> ".", name |-> Jpg("E"),
          bytes |-> FileBytes("pixE", "bad", FALSE, <<100, 400>>)]
FileEU == [rel |-> ".", name |-> <<"E", ".", "J", "P", "G">>,
           bytes |-> FileBytes("pixE", "ok", FALSE, <<100, 400>>)]
FileS == [rel |-> "sub", name |-> <<"S", ".", "j", "p", "e", "g">>,
          bytes |-> FileBytes("pixS", "ok", FALSE, <<1000, 1>>)]
FileN == [rel |-> ".", name |-> <<"N", ".", "p", "n", "g">>,
          bytes |-> FileBytes("pixN", "bad", FALSE, <<10, 10>>)]
FileM == [rel |-> ".", name |-> Jpg(DoneMark),
          bytes |-> FileBytes("pixM", "ok", FALSE, <<320, 240>>)]

\* an output of an earlier batch, already in the output folder
OldOutput == [rel |-> ".", name |-> <<"B">> \o Thumb \o <<".", "j", "p", "g">>,
              bytes |-> FileBytes("pixOld", "ok", TRUE, <<320, 240>>)]

InputFolders == {{FileA, FileB, FileC}, {FileB, FileE, FileN},
                 {FileA, FileEU, FileS}}

\* the file system with the files `inputs` under the input folder and the
\* files `outputs` under the output folder
FileSystem(input_path, inputs, output_path, outputs) ==
    LET placed == {<<Path(input_path, f.rel, f.name), f.bytes>> : f \in inputs}
                    \cup {<<Path(output_path, f.rel, f.name), f.bytes>> :
                            f \in outputs}
        paths == {e[1] : e \in placed}
    IN  [p \in paths |-> (CHOOSE e \in placed : e[1] = p)[2]]

Form(input_path, output_path, format, policy, use_mp, n, show_log) ==
    [input_path |-> input_path, output_path |-> output_path,
     filename_format |-> format, conflict_resolution |-> policy,
     use_mp |-> use_mp, num_processes |-> n, show_log |-> show_log]

\* the state of the program after App.__init__, for the files, the form and
\* the user given
Start(files, form, u) ==
    /\ cfg = form
    /\ fs = files
    /\ fs0 = files
    /\ user = u
    /\ start_button = "normal"
    /\ status_queue = <<>>
    /\ status_text = <<>>
    /\ runs = <<>>
    /\ nfaults = 0
    /\ img = <<320, 240>>
    /\ thumb_size = <<>>

\* the forms with the sequential pass, and with a pool of 1..MaxCpus workers
Forms(input_path, output_paths, formats, policies, logs) ==
    {Form(input_path, output_path, format, policy, use_mp, n, show_log) :
        output_path \in output_paths, format \in formats, policy \in policies,
        use_mp \in BOOLEAN, n \in 1..MaxCpus, show_log \in logs}

\* the slider keeps its default while the multiprocessing switch is off
Usable(form) == form.use_mp \/ form.num_processes = 1

\* a patient user and an environment without faults: every format and policy
\* on every input folder, the output folder empty or holding an old output,
\* and one form whose input folder does not exist
Init ==
    \/ \E inputs \in InputFolders, outputs \in {{}, {OldOutput}},
          form \in Forms("in", {"in", "out"}, Formats, Policies, {FALSE}) :
            /\ Usable(form)
            /\ Start(FileSystem("in", inputs, form.output_path, outputs),
                     form, "patient")
    \/ Start(FileSystem("in", {FileB}, "out", {}),
             Form("missing", "out", DefaultFormat, "skip", FALSE, 1, TRUE),
             "patient")

\* the steps of a run in an environment without faults
Next ==
    \/ Click
    \/ CheckQueue
    \/ \E r \in DOMAIN runs : Validate(r)
    \/ \E r \in DOMAIN runs : Scan(r)
    \/ \E r \in DOMAIN runs : Dispatch(r)
    \/ \E r \in DOMAIN runs : Prepare(r, "none")
    \/ \E r \in DOMAIN runs : \E i \in DOMAIN runs[r].work : Open(r, i)
    \/ \E r \in DOMAIN runs : \E i \in DOMAIN runs[r].work : Write(r, i)
    \/ \E r \in DOMAIN runs : Collect(r)
    \/ \E r \in DOMAIN runs : Summary(r)

Spec == Init /\ [][Next]_vars

----------------------------------------------------------------------------
(* An environment with faults *)

\* a patient user, a separate and empty output folder, the policies "skip"
\* and "overwrite"; up to MaxFaults steps of the environment fail
InitFaults ==
    \E inputs \in InputFolders,
       form \in Forms("in", {"out"}, {DefaultFormat, PlainFormat},
                      {"skip", "overwrite"}, {TRUE}) :
        /\ Usable(form)
        /\ Start(FileSystem("in", inputs, form.output_path, {}), form,
                 "patient")

NextFaults ==
    \/ Next
    \/ \E r \in DOMAIN runs : PoolFails(r)
    \/ \E r \in DOMAIN runs : Prepare(r, "encode")
    \/ \E r \in DOMAIN runs : Prepare(r, "raise")
    \/ \E r \in DOMAIN runs : \E i \in DOMAIN runs[r].work : WriteFails(r, i)

SpecFaults == InitFaults /\ [][NextFaults]_vars

----------------------------------------------------------------------------
(* A user who does not wait *)

\* a hasty user: the button is clicked whenever it is enabled.  The input
\* folder holds one image, which has the phrase of the summary in its name,
\* and the per-file log is switched on.
InitGui ==
    \E form \in Forms("in", {"out"}, {DefaultFormat}, {"skip"}, {TRUE})
                    \cup {Form("missing", "out", DefaultFormat, "skip", FALSE,
                               1, TRUE)} :
        /\ Usable(form)
        /\ Start(FileSystem("in", {FileM}, "out", {}), form, "hasty")

\* a step of the start_processing thread of run r
ThreadStep(r) ==
    /\ r \in DOMAIN runs
    /\ \/ Validate(r)
       \/ Scan(r)
       \/ Dispatch(r)
       \/ PoolFails(r)
       \/ Collect(r)
       \/ Summary(r)

\* a step of process_single_file in run r
WorkerStep(r) ==
    /\ r \in DOMAIN runs
    /\ \/ \E fault \in {"none", "encode", "raise"} : Prepare(r, fault)
       \/ \E i \in DOMAIN runs[r].work : Open(r, i) \/ Write(r, i)
                                            \/ WriteFails(r, i)

\* a step of the program: anything but the user's click
ProgramStep ==
    \/ CheckQueue
    \/ \E r \in DOMAIN runs : ThreadStep(r) \/ WorkerStep(r)

\* the Tk timer keeps calling check_queue and the operating system keeps
\* scheduling the threads and the pool's processes: the program does not
\* stop while one of them can take a step
Fairness == WF_vars(ProgramStep)

\* the steps of the runs where the only fault is a pool that does not start
NextGui ==
    \/ Next
    \/ \E r \in DOMAIN runs : PoolFails(r)

SpecGui == InitGui /\ [][NextGui]_vars

\* a patient user, an image, an image whose name holds the phrase of the
\* summary, and one form whose input folder does not exist
InitLive ==
    \E form \in Forms("in", {"out"}, {DefaultFormat}, {"skip", "rename"},
                      {TRUE})
                    \cup {Form("missing", "out", DefaultFormat, "skip", FALSE,
                               1, TRUE)} :
        /\ Usable(form)
        /\ Start(FileSystem("in", {FileB, FileM}, "out", {}), form,
                 "patient")

SpecLive == InitLive /\ [][NextGui]_vars /\ Fairness

----------------------------------------------------------------------------
(* The thumbnail size of every image up to MaxDim x MaxDim *)

InitThumb ==
    /\ cfg = Form("in", "out", DefaultFormat, "skip", FALSE, 1, FALSE)
    /\ fs = FileSystem("in", {}, "out", {})
    /\ fs0 = fs
    /\ user = "patient"
    /\ start_button = "normal"
    /\ status_queue = <<>>
    /\ status_text = <<>>
    /\ runs = <<>>
    /\ nfaults = 0
    /\ img \in (1..MaxDim) \X (1..MaxDim)
    /\ thumb_size = <<>>

NextThumb == Resize

SpecThumb == InitThumb /\ [][NextThumb]_vars

----------------------------------------------------------------------------
(* What the runs leave behind *)

Summed(r) == runs[r].pc = "done" /\ runs[r].n_summary = 1

\* run_single_process on a task list, without faults: the file system and
\* the counters after the last task
RECURSIVE RunSequential(_, _, _)
RunSequential(f, tasks, run) ==
    IF tasks = <<>> THEN [fs |-> f, run |-> run]
    ELSE LET one == ProcessAlone(f, Head(tasks))
         IN  RunSequential(one.fs, Tail(tasks), Count(run, one.result[1]))

\* worker i of run r opens its destination in this step
Opens(r, i) ==
    /\ r \in DOMAIN runs
    /\ i \in DOMAIN runs[r].work
    /\ runs[r].work[i].pc = "open"
    /\ i \in DOMAIN runs'[r].work
    /\ runs'[r].work[i].pc = "write"

\* worker i of run r writes its bytes and returns SUCCESS in this step
Writes(r, i) ==
    /\ r \in DOMAIN runs
    /\ i \in DOMAIN runs[r].work
    /\ runs[r].work[i].pc = "write"
    /\ i \notin DOMAIN runs'[r].work
    /\ fs' # fs \/ fs[runs[r].work[i].output_path] = runs[r].work[i].output_bytes

\* C1: under the policies "skip" and "rename" no worker opens for writing a
\* destination that exists at that moment, whatever the interleaving of the
\* pool's workers.
C1_NeverReplacesExisting ==
    [][\A r \in DOMAIN runs : \A i \in DOMAIN runs[r].work :
          (Opens(r, i) /\ cfg.conflict_resolution \in {"skip", "rename"})
              => runs[r].work[i].output_path \notin DOMAIN fs]_vars

\* C10: a first run through the pool ends with the counters and the set of
\* files that the sequential pass over the same task list ends with.
C10_ParallelEqualsSequential ==
    (Len(runs) = 1 /\ Summed(1) /\ cfg.use_mp) =>
        LET seq == RunSequential(fs0, runs[1].tasks, NewRun)
        IN  /\ runs[1].processed_count = seq.run.processed_count
            /\ runs[1].skipped_exists_count = seq.run.skipped_exists_count
            /\ runs[1].failed_count = seq.run.failed_count
            /\ DOMAIN fs = DOMAIN seq.fs

\* The sequential pass of the model ends as RunSequential computes.
SequentialPassIsRunSequential ==
    (Len(runs) = 1 /\ Summed(1) /\ ~cfg.use_mp) =>
        LET seq == RunSequential(fs0, runs[1].tasks, NewRun)
        IN  /\ runs[1].processed_count = seq.run.processed_count
            /\ runs[1].skipped_exists_count = seq.run.skipped_exists_count
            /\ runs[1].failed_count = seq.run.failed_count
            /\ fs = seq.fs

Scenario(format) ==
    /\ fs0 = FileSystem("in", {FileA, FileB, FileC}, "out", {})
    /\ cfg.input_path = "in"
    /\ cfg.output_path = "out"
    /\ cfg.conflict_resolution = "skip"
    /\ cfg.filename_format = format

\* the first run ended with B processed, A pre-skipped and C failed, and
\* the only new file is B-thumb.jpg in the output folder
ScenarioOutcome ==
    /\ runs[1].processed_count = 1
    /\ runs[1].skipped_thumb_count = 1
    /\ runs[1].skipped_exists_count = 0
    /\ runs[1].failed_count = 1
    /\ DOMAIN fs \ DOMAIN fs0 = {Path("out", ".", OldOutput.name)}

\* C5 as stated: the scenario with the format "{name}-thumb".
C5_ScenarioNameFormat ==
    (Scenario(NameFormat) /\ Len(runs) >= 1 /\ Summed(1)) => ScenarioOutcome

\* C5 amended: in the end-to-end scenario with the format "{Filename}-thumb"
\* the run ends with processed = 1 (B), pre-skipped = 1 (A), failed = 1 (C)
\* and exactly one new file, B-thumb.jpg, in the output folder.
C5_ScenarioDefaultFormat ==
    (Scenario(DefaultFormat) /\ Len(runs) >= 1 /\ Summed(1)) => ScenarioOutcome

C5_Witness ==
    /\ Scenario(DefaultFormat)
    /\ Len(runs) >= 1
    /\ Summed(1)
    /\ cfg.use_mp
    /\ fs[Path("out", ".", OldOutput.name)] = Insert(FileB.bytes)

Statuses == {"SUCCESS", "SKIPPED_EXISTS", "FAILURE"}

Counted(r) ==
    runs[r].processed_count + runs[r].skipped_exists_count
        + runs[r].failed_count

\* C4: every task that was started is inside process_single_file or has
\* produced exactly one Result, whose status is SUCCESS, SKIPPED_EXISTS or
\* FAILURE, whatever step failed; a run that reaches its summary has one
\* Result for each of its tasks.
C4_TotalFunction ==
    \A r \in DOMAIN runs :
        /\ \A k \in DOMAIN runs[r].results :
              runs[r].results[k][1] \in Statuses
        /\ runs[r].next - 1 = Cardinality(DOMAIN runs[r].work)
                                + Len(runs[r].results) + Counted(r)
        /\ Summed(r) => Counted(r) = Len(runs[r].tasks)

\* a run reached its summary although the environment failed one of its
\* tasks, and another task of it was processed
C4_Witness ==
    \E r \in DOMAIN runs :
        /\ Summed(r)
        /\ nfaults >= 1
        /\ runs[r].failed_count >= 1
        /\ runs[r].processed_count >= 1
        /\ runs[r].n_fatal = 0

\* C6: a run that reaches its summary has counted every file with a JPEG
\* name under the input folder in exactly one of the four counters; the
\* files whose EXIF parses and holds a thumbnail are pre-skipped and every
\* other one has exactly one task.
C6_Accounting ==
    \A r \in DOMAIN runs :
        /\ runs[r].pc \notin {"start", "validated"} =>
              /\ runs[r].skipped_thumb_count + Len(runs[r].tasks) = runs[r].seen
              /\ \A i, j \in DOMAIN runs[r].tasks :
                    runs[r].tasks[i].full_path = runs[r].tasks[j].full_path
                        => i = j
              /\ r = 1 =>
                    /\ runs[r].seen
                          = Cardinality(ScannedFiles(fs0, cfg.input_path))
                    /\ {runs[r].tasks[i].full_path : i \in DOMAIN runs[r].tasks}
                          = {p \in ScannedFiles(fs0, cfg.input_path) :
                                fs0[p].exif = "bad" \/ ~fs0[p].thumb}
        /\ Summed(r) =>
              runs[r].skipped_thumb_count + Counted(r) = runs[r].seen

\* a run over a folder of three files with JPEG names reached its summary
\* with one file pre-skipped, one processed and one failed
C6_Witness ==
    /\ Len(runs) >= 1
    /\ Summed(1)
    /\ runs[1].skipped_thumb_count = 1
    /\ runs[1].failed_count >= 1
    /\ runs[1].processed_count >= 1
    /\ runs[1].seen = 3

Terminals(r) == runs[r].n_summary + runs[r].n_fatal

\* check_queue displays the head of the queue in this step
Displays(message) ==
    /\ status_queue # <<>>
    /\ Head(status_queue) = message
    /\ status_queue' = Tail(status_queue)

\* C7: a run that passed validation puts exactly one terminal message, the
\* summary or the fatal error, on the queue, and none before it ends; when
\* check_queue displays a terminal message the start button is enabled, and
\* under fair polling a state with a run in progress is followed by a state
\* in which the runs have ended, their messages are displayed and the
\* button is enabled.
C7_OneTerminalThenReady ==
    /\ [](\A r \in DOMAIN runs :
            /\ Active(r) => Terminals(r) = 0
            /\ (~Active(r) /\ IsDir(cfg.input_path) /\ IsDir(cfg.output_path))
                  => Terminals(r) = 1)
    /\ [][(Displays(SummaryMessage) \/ Displays(FatalMessage))
              => start_button' = "normal"]_vars
    /\ (\E r \in DOMAIN runs : Active(r))
          ~> /\ \A r \in DOMAIN runs : ~Active(r)
             /\ status_queue = <<>>
             /\ start_button = "normal"

\* the pool of a run could not be started, its fatal message was displayed
\* and the button is enabled again
C7_Witness ==
    /\ Len(runs) >= 1
    /\ runs[1].n_fatal = 1
    /\ status_queue = <<>>
    /\ status_text # <<>>
    /\ status_text[Len(status_text)] = FatalMessage
    /\ start_button = "normal"

\* C9: at most one run is between its start and its end.
C9_OneRunAtATime ==
    Cardinality({r \in DOMAIN runs : Active(r)}) <= 1

\* |a|
Abs(a) == IF a < 0 THEN -a ELSE a

\* C8: the thumbnail of a w x h image is at most 160 wide and 120 high, and
\* each dimension is within one pixel of the exact value w*s, h*s for
\* s = min(160/w, 120/h).
C8_ThumbnailSize ==
    thumb_size # <<>> =>
        LET w == img[1]
            h == img[2]
            wide == target_width * h <= target_height * w
            num == IF wide THEN target_width ELSE target_height
            den == IF wide THEN w ELSE h
        IN  /\ thumb_size[1] <= target_width
            /\ thumb_size[2] <= target_height
            /\ Abs(thumb_size[1] * den - w * num) <= den
            /\ Abs(thumb_size[2] * den - h * num) <= den

\* an image larger than the target in both dimensions was scaled down
C8_Witness ==
    /\ thumb_size # <<>>
    /\ img[1] > target_width
    /\ img[2] > target_height
    /\ thumb_size[2] = target_height
    /\ thumb_size[1] < target_width
    /\ thumb_size[1] > 0

====
